---- MODULE Spec2Model ----
(***************************************************************************)
(* A model of cmd/simplelb/lb.go: the server pool (round-robin cursor and  *)
(* per-backend alive flags), the request handler lb, the reverse proxy's   *)
(* ErrorHandler closure and the periodic health check.                     *)
(*                                                                         *)
(* Indices are the Go indices (0-based); a TLA+ sequence is 1-based, so    *)
(* s.backends[idx] of the source is s.backends[idx + 1] here.              *)
(***************************************************************************)
EXTENDS Integers, Sequences, FiniteSets, TLC

VARIABLES
    serverPool,   \* var serverPool ServerPool: [backends, currentIndex]
    req,          \* per request: position in lb / GetNextPeer / proxy, context, locals
    hcIdx,        \* position of HealthCheck's range loop over s.backends
    hist,         \* history: what each request's own steps did (ghost)
    calls,        \* the GetNextPeer / NextIndex calls made, in order (ghost; SeqSpec:
                  \* since the last flag change)
    lastOp,       \* the last operation run (ghost)
    reachable,    \* ProbeSpec: the backends whose TCP address accepts a connection
    boot          \* StartupSpec: main's position, the -backends string, its tokens

vars == <<serverPool, req, hcIdx, hist, calls, lastOp, reachable, boot>>

(***************************************************************************)
(* Bounds of the model.                                                    *)
(***************************************************************************)
MaxBackends == 2      \* Spec: pools of 1..MaxBackends backends
NumRequests == 2      \* Spec: inbound requests in flight together
MaxSeqBackends == 3   \* SeqSpec: pools of 1..MaxSeqBackends backends
MaxCalls == 5         \* SeqSpec: GetNextPeer calls recorded between two flag changes
MaxCursor == 7        \* SeqSpec: no call starts with the cursor at MaxCursor
MaxListLen == 4       \* StartupSpec: -backends strings of 0..MaxListLen characters

Requests == 1..NumRequests

(***************************************************************************)
(* Program constants.                                                      *)
(***************************************************************************)
Attempt == 0          \* context key, iota
Retry == 1            \* context key
MaxAttemptsOffByOne == 3 + 1   \* mutant of MaxAttempts: attempts > 4
MaxAttemptsLow == 3 - 1        \* mutant of MaxAttempts: attempts > 2
MaxAttempts == 3      \* lb: attempts > 3
MaxRetriesNone == 0 - 1        \* mutant of MaxRetries: retries > -1
MaxRetries == 3       \* ErrorHandler: retries > 3
StatusOK == 200
StatusServiceUnavailable == 503
CursorModulus == 2^30 \* currentIndex is a uint64; the width is scaled to TLC's integers

Nil == -1             \* the nil *Backend

(***************************************************************************)
(* URLs.  A token of the -backends list is a scheme and a host; url.Parse  *)
(* lower-cases the scheme, URL.String() prints what was parsed.            *)
(***************************************************************************)
ToLower(s) == IF s = "HTTP" THEN "http" ELSE s

UrlParse(tok) == [Scheme |-> ToLower(tok.scheme), Host |-> tok.host]

UrlString(u) == <<u.Scheme, "://", u.Host>>

(***************************************************************************)
(* Backend                                                                 *)
(***************************************************************************)
\* Mutant of IsAlive: the flag is not read.
IsAliveUnread(b) == TRUE

SetAlive(b, alive) == [b EXCEPT !.Alive = alive]

IsAlive(b) == b.Alive

(***************************************************************************)
(* ServerPool                                                              *)
(***************************************************************************)
EmptyPool == [backends |-> <<>>, currentIndex |-> 0]

AddBackend(s, backend) == [s EXCEPT !.backends = Append(@, backend)]

\* Mutant of AddUint64: delta is added twice.
AddUint64Twice(c, delta) == (c + delta + delta) % CursorModulus

AddUint64(c, delta) == (c + delta) % CursorModulus

\* Mutant of NextIndex: the index is computed but the cursor is not advanced.
NextIndexNoAdd(s) ==
    [pool |-> s, idx |-> AddUint64(s.currentIndex, 1) % Len(s.backends)]

\* Mutant of NextIndex: the cursor is advanced by two.
NextIndexTwice(s) ==
    LET new == AddUint64(s.currentIndex, 2)
    IN  [pool |-> [s EXCEPT !.currentIndex = new],
         idx  |-> new % Len(s.backends)]

\* atomic.AddUint64(&s.currentIndex, 1) % len(s.backends): the pool after the
\* increment and the index returned.
NextIndex(s) ==
    LET new == AddUint64(s.currentIndex, 1)
    IN  [pool |-> [s EXCEPT !.currentIndex = new],
         idx  |-> new % Len(s.backends)]

\* Mutant of StoreUint64: the position after idx is stored.
StoreUint64Next(s, idx) == [s EXCEPT !.currentIndex = (idx + 1) % CursorModulus]

StoreUint64(s, idx) == [s EXCEPT !.currentIndex = idx % CursorModulus]

\* Mutant of MarkLoop: the loop does not return at the first match.
RECURSIVE MarkLoopAll(_, _, _, _)
MarkLoopAll(s, backendUrl, alive, k) ==
    IF k > Len(s.backends) THEN s
    ELSE IF UrlString(s.backends[k].URL) = UrlString(backendUrl)
         THEN MarkLoopAll([s EXCEPT !.backends[k] = SetAlive(@, alive)],
                          backendUrl, alive, k + 1)
         ELSE MarkLoopAll(s, backendUrl, alive, k + 1)

\* Mutant of MarkLoop: the opposite status is recorded.
RECURSIVE MarkLoopNegated(_, _, _, _)
MarkLoopNegated(s, backendUrl, alive, k) ==
    IF k > Len(s.backends) THEN s
    ELSE IF UrlString(s.backends[k].URL) = UrlString(backendUrl)
         THEN [s EXCEPT !.backends[k] = SetAlive(@, ~alive)]
         ELSE MarkLoopNegated(s, backendUrl, alive, k + 1)

\* The range loop of MarkBackendStatus from position k on: the first backend whose
\* URL prints like backendUrl gets SetAlive(alive), and the loop returns.
RECURSIVE MarkLoop(_, _, _, _)
MarkLoop(s, backendUrl, alive, k) ==
    IF k > Len(s.backends) THEN s
    ELSE IF UrlString(s.backends[k].URL) = UrlString(backendUrl)
         THEN [s EXCEPT !.backends[k] = SetAlive(@, alive)]
         ELSE MarkLoop(s, backendUrl, alive, k + 1)

\* Mutant of MarkBackendStatus: the status is not recorded.
MarkBackendStatusSkipped(s, backendUrl, alive) == s

MarkBackendStatus(s, backendUrl, alive) == MarkLoop(s, backendUrl, alive, 1)

\* Mutant of PeerLoop: the scan stops at the end of the slice instead of wrapping.
RECURSIVE PeerLoopNoWrap(_, _, _, _)
PeerLoopNoWrap(s, next, limit, i) ==
    IF i < Len(s.backends)
    THEN IF IsAlive(s.backends[i + 1])
         THEN [pool |-> IF i # next THEN StoreUint64(s, i) ELSE s, peer |-> i]
         ELSE PeerLoopNoWrap(s, next, limit, i + 1)
    ELSE [pool |-> s, peer |-> Nil]

\* Mutant of PeerLoop: the cursor is stored at the starting index too.
RECURSIVE PeerLoopAlwaysStore(_, _, _, _)
PeerLoopAlwaysStore(s, next, limit, i) ==
    IF i < limit
    THEN LET idx == i % Len(s.backends)
         IN  IF IsAlive(s.backends[idx + 1])
             THEN [pool |-> StoreUint64(s, idx), peer |-> idx]
             ELSE PeerLoopAlwaysStore(s, next, limit, i + 1)
    ELSE [pool |-> s, peer |-> Nil]

\* The for loop of GetNextPeer from i on, run without interruption.
RECURSIVE PeerLoop(_, _, _, _)
PeerLoop(s, next, limit, i) ==
    IF i < limit
    THEN LET idx == i % Len(s.backends)
         IN  IF IsAlive(s.backends[idx + 1])
             THEN [pool |-> IF i # next THEN StoreUint64(s, idx) ELSE s,
                   peer |-> idx]
             ELSE PeerLoop(s, next, limit, i + 1)
    ELSE [pool |-> s, peer |-> Nil]

\* Mutant of ScanLimit: the limit is one short.
ScanLimitShort(next, n) == next + n - 1

\* limit := next + len(s.backends)
ScanLimit(next, n) == next + n

\* Mutant of GetNextPeer: the limit is one short, the last position is not read.
GetNextPeerShortScan(s) ==
    LET n == NextIndex(s)
    IN  PeerLoop(n.pool, n.idx, n.idx + Len(s.backends) - 1, n.idx)

\* A whole GetNextPeer call run without interruption: the pool after it and the
\* index of the backend returned (Nil for nil).
GetNextPeer(s) ==
    LET n == NextIndex(s)
    IN  PeerLoop(n.pool, n.idx, ScanLimit(n.idx, Len(s.backends)), n.idx)

(***************************************************************************)
(* main: the pool built from the -backends list.                           *)
(***************************************************************************)
RECURSIVE ConfigurePool(_, _, _)
ConfigurePool(s, urls, k) ==
    IF k > Len(urls) THEN s
    ELSE ConfigurePool(
            AddBackend(s, [URL |-> UrlParse(urls[k]), Alive |-> TRUE]),
            urls, k + 1)

\* The -backends lists tried.  Only equality of the printed URLs is ever used, so
\* one list stands for all its renamings: host k is first used after hosts 1..k-1,
\* and a repeated host is written with the other spelling of the scheme.
HostPatterns(n) ==
    {g \in [1..n -> 1..n] :
        /\ g[1] = 1
        /\ \A k \in 2..n : \E j \in 1..(k - 1) : g[k] <= g[j] + 1}

TokenAt(g, k) ==
    [scheme |-> IF \E j \in 1..(k - 1) : g[j] = g[k] THEN "HTTP" ELSE "http",
     host   |-> g[k]]

ServerLists(max) ==
    UNION {{[k \in 1..n |-> TokenAt(g, k)] : g \in HostPatterns(n)} : n \in 1..max}

(***************************************************************************)
(* Request context                                                         *)
(***************************************************************************)
EmptyContext == [k \in {} |-> 0]

\* Mutant of WithValue: the request goes on with its old context.
WithValueDropped(ctx, key, val) == ctx

WithValue(ctx, key, val) ==
    [k \in DOMAIN ctx \cup {key} |-> IF k = key THEN val ELSE ctx[k]]

GetRetryFromContext(ctx) == IF Retry \in DOMAIN ctx THEN ctx[Retry] ELSE 0

GetAttemptsFromContext(ctx) == IF Attempt \in DOMAIN ctx THEN ctx[Attempt] ELSE 0


(***************************************************************************)
(* Initial state: main has configured the pool (every backend Alive: true, *)
(* currentIndex zero), no request has been handled yet, the health check   *)
(* is about to start its first pass.                                       *)
(***************************************************************************)
NewRequest ==
    [pc |-> "lb", ctx |-> EmptyContext, next |-> 0, i |-> 0, peer |-> Nil,
     status |-> 0]

\* What the history keeps of a request: how often it was handed to a proxy, how
\* often that failed, how often its handler called MarkBackendStatus, why it ended;
\* and, after a failure, the peer that failed, whether another backend was alive at
\* the mark, whether a probe has set the failed peer alive since; and, during a
\* GetNextPeer call, the backends that are dead since before the call began and
\* the backends the call has read as dead (kept when the call returns nil).
NewHistory ==
    [forwards |-> 0, failures |-> 0, marks |-> 0, cause |-> "none",
     failedPeer |-> Nil, otherAlive |-> FALSE, revived |-> FALSE, deadSince |-> {},
     readDead |-> {}]

NoOp == [op |-> "none"]

\* main past its for loop: the server is listening and healthCheck is running.
Serving == [pc |-> "serving", serverList |-> <<>>, tokens |-> <<>>, k |-> 0]

InitWith(max) ==
    /\ \E urls \in ServerLists(max) : serverPool = ConfigurePool(EmptyPool, urls, 1)
    /\ req = [r \in Requests |-> NewRequest]
    /\ hcIdx = 0
    /\ hist = [r \in Requests |-> NewHistory]
    /\ calls = <<>>
    /\ lastOp = NoOp
    /\ reachable = 0..(Len(serverPool.backends) - 1)
    /\ boot = Serving

Init == InitWith(MaxBackends)

NumBackends == Len(serverPool.backends)

Indices == 0..(NumBackends - 1)

DeadNow == {b \in Indices : ~serverPool.backends[b + 1].Alive}

\* The history after a write of TRUE to the alive flag of backend b.
Revive(h, b) ==
    [r \in Requests |->
        [h[r] EXCEPT
            !.deadSince = @ \ {b},
            !.revived = @ \/ (h[r].failedPeer = b /\ req[r].pc \in {"lb", "scan"})]]

\* The history of a request that has ended.
Ended(h, why) ==
    [h EXCEPT !.cause = why, !.failedPeer = Nil, !.otherAlive = FALSE,
              !.revived = FALSE, !.deadSince = {},
              !.readDead = IF why = "nopeer" THEN @ ELSE {}]

Respond(rq, code) ==
    [rq EXCEPT !.pc = "done", !.status = code, !.next = 0, !.i = 0, !.peer = Nil]

\* lb's call peer.ReverseProxy.ServeHTTP(w, r) with the peer GetNextPeer returned.
Serve(rq, idx) == [rq EXCEPT !.pc = "serve", !.peer = idx, !.next = 0, !.i = 0]

\* The history of a request whose GetNextPeer call has chosen its peer.
Chosen(h) ==
    [h EXCEPT !.failedPeer = Nil, !.otherAlive = FALSE, !.revived = FALSE,
              !.deadSince = {}, !.readDead = {}]

(***************************************************************************)
(* lb, up to and including the atomic increment of GetNextPeer's NextIndex *)
(***************************************************************************)
lbStep(r) ==
    /\ req[r].pc = "lb"
    /\ LET attempts == GetAttemptsFromContext(req[r].ctx)
       IN  IF attempts > MaxAttempts
           THEN /\ req' = [req EXCEPT ![r] = Respond(@, StatusServiceUnavailable)]
                /\ hist' = [hist EXCEPT ![r] = Ended(@, "attempts")]
                /\ UNCHANGED serverPool
           ELSE LET n == NextIndex(serverPool)
                IN  /\ serverPool' = n.pool
                    /\ req' = [req EXCEPT ![r].pc = "scan",
                                          ![r].next = n.idx,
                                          ![r].i = n.idx]
                    /\ hist' = [hist EXCEPT ![r].deadSince = DeadNow]
    /\ UNCHANGED <<hcIdx, reachable, boot>>

lb(r) == lbStep(r) /\ UNCHANGED <<calls, lastOp>>

(***************************************************************************)
(* One iteration of GetNextPeer's for loop: one IsAlive read.  A backend   *)
(* found alive at the starting index is returned and lb calls its proxy;   *)
(* found later, the cursor is stored first.  Past the limit GetNextPeer    *)
(* returns nil and lb answers 503.                                         *)
(***************************************************************************)
GetNextPeerIterStep(r) ==
    /\ req[r].pc = "scan"
    /\ LET rq == req[r]
           limit == ScanLimit(rq.next, NumBackends)
           idx == rq.i % NumBackends
       IN  IF IsAlive(serverPool.backends[idx + 1])
           THEN IF rq.i # rq.next
                THEN /\ req' = [req EXCEPT ![r].pc = "store", ![r].peer = idx,
                                           ![r].next = 0, ![r].i = 0]
                     /\ hist' = [hist EXCEPT ![r] = Chosen(@)]
                ELSE /\ req' = [req EXCEPT ![r] = Serve(@, idx)]
                     /\ hist' = [hist EXCEPT ![r] = [Chosen(@) EXCEPT !.forwards = @ + 1]]
           ELSE IF rq.i + 1 < limit
                THEN /\ req' = [req EXCEPT ![r].i = rq.i + 1]
                     /\ hist' = [hist EXCEPT ![r].readDead = @ \cup {idx}]
                ELSE /\ req' = [req EXCEPT ![r] = Respond(@, StatusServiceUnavailable)]
                     /\ hist' = [hist EXCEPT
                                   ![r] = Ended([@ EXCEPT !.readDead = @ \cup {idx}],
                                                "nopeer")]
    /\ UNCHANGED <<serverPool, hcIdx, reachable, boot>>

GetNextPeerIter(r) == GetNextPeerIterStep(r) /\ UNCHANGED <<calls, lastOp>>

(***************************************************************************)
(* atomic.StoreUint64(&s.currentIndex, uint64(idx)), then the return and   *)
(* lb's call of the peer's proxy.                                          *)
(***************************************************************************)
GetNextPeerStore(r) ==
    /\ req[r].pc = "store"
    /\ serverPool' = StoreUint64(serverPool, req[r].peer)
    /\ req' = [req EXCEPT ![r] = Serve(@, req[r].peer)]
    /\ hist' = [hist EXCEPT ![r].forwards = @ + 1]
    /\ UNCHANGED <<hcIdx, calls, lastOp, reachable, boot>>

(***************************************************************************)
(* peer.ReverseProxy.ServeHTTP delivers the backend's response.            *)
(***************************************************************************)
ProxyDelivers(r) ==
    /\ req[r].pc = "serve"
    /\ req' = [req EXCEPT ![r] = Respond(@, StatusOK)]
    /\ hist' = [hist EXCEPT ![r] = Ended(@, "backend")]
    /\ UNCHANGED <<serverPool, hcIdx, calls, lastOp, reachable, boot>>

(***************************************************************************)
(* peer.ReverseProxy.ServeHTTP fails and calls proxy.ErrorHandler, up to   *)
(* its call of proxy.ServeHTTP (same peer) or of lb (another backend).     *)
(***************************************************************************)
ErrorHandler(r) ==
    /\ req[r].pc = "serve"
    /\ LET rq == req[r]
           serverUrl == serverPool.backends[rq.peer + 1].URL
           retries == GetRetryFromContext(rq.ctx)
           attempts == GetAttemptsFromContext(rq.ctx)
       IN  IF retries > MaxRetries
           THEN /\ req' = [req EXCEPT ![r].ctx = WithValue(rq.ctx, Retry, retries + 1)]
                /\ hist' = [hist EXCEPT ![r].forwards = @ + 1, ![r].failures = @ + 1]
                /\ UNCHANGED serverPool
           ELSE /\ serverPool' = MarkBackendStatus(serverPool, serverUrl, FALSE)
                /\ req' = [req EXCEPT ![r].ctx = WithValue(rq.ctx, Attempt, attempts + 1),
                                      ![r].pc = "lb",
                                      ![r].peer = Nil]
                /\ hist' = [hist EXCEPT
                              ![r].failures = @ + 1,
                              ![r].marks = @ + 1,
                              ![r].failedPeer = rq.peer,
                              ![r].revived = FALSE,
                              ![r].deadSince = {},
                              ![r].otherAlive =
                                  \E b \in Indices :
                                      b # rq.peer /\ serverPool.backends[b + 1].Alive]
    /\ UNCHANGED <<hcIdx, calls, lastOp, reachable, boot>>

(***************************************************************************)
(* One iteration of HealthCheck's loop: the TCP dial of isBackendAlive     *)
(* succeeds or fails, and SetAlive records it.  After the last backend the *)
(* next pass starts with the next tick.                                    *)
(***************************************************************************)
HealthCheckStep ==
    /\ \E up \in BOOLEAN :
          /\ serverPool' = [serverPool EXCEPT !.backends[hcIdx + 1] = SetAlive(@, up)]
          /\ hist' = IF up THEN Revive(hist, hcIdx) ELSE hist
    /\ hcIdx' = (hcIdx + 1) % NumBackends
    /\ UNCHANGED <<req, reachable, boot>>

HealthCheck == HealthCheckStep /\ UNCHANGED <<calls, lastOp>>

Next ==
    \/ \E r \in Requests : lb(r)
    \/ \E r \in Requests : GetNextPeerIter(r)
    \/ \E r \in Requests : GetNextPeerStore(r)
    \/ \E r \in Requests : ProxyDelivers(r)
    \/ \E r \in Requests : ErrorHandler(r)
    \/ HealthCheck

Spec == Init /\ [][Next]_vars

(***************************************************************************)
(* The same handlers with backends that answer every request forwarded to  *)
(* them: the proxy's ErrorHandler is never called, the alive flags are     *)
(* written by the health check alone, each request makes one GetNextPeer   *)
(* call.  lastOp keeps, for each request, whether at some instant of its   *)
(* call, from the increment to the return, every alive flag was false.     *)
(***************************************************************************)
NoneAlive(s) == \A k \in 1..Len(s.backends) : ~s.backends[k].Alive

AllDeadSeen == IF "allDead" \in DOMAIN lastOp THEN lastOp.allDead
               ELSE [r \in Requests |-> FALSE]

PeerNextIndex(r) ==
    /\ lbStep(r)
    /\ lastOp' = [op |-> "calls",
                  allDead |-> [AllDeadSeen EXCEPT ![r] = NoneAlive(serverPool)]]
    /\ UNCHANGED calls

PeerHealthCheck ==
    /\ HealthCheckStep
    /\ lastOp' = [op |-> "calls",
                  allDead |-> [r \in Requests |->
                                  IF req[r].pc = "scan"
                                  THEN AllDeadSeen[r] \/ NoneAlive(serverPool')
                                  ELSE AllDeadSeen[r]]]
    /\ UNCHANGED calls

PeerNext ==
    \/ \E r \in Requests : PeerNextIndex(r)
    \/ \E r \in Requests : GetNextPeerIter(r)
    \/ \E r \in Requests : GetNextPeerStore(r)
    \/ \E r \in Requests : ProxyDelivers(r)
    \/ PeerHealthCheck

PeerSpec == Init /\ [][PeerNext]_vars

(***************************************************************************)
(* The pool used by one caller at a time: whole GetNextPeer calls, and     *)
(* between them the writes of the alive flags (SetAlive by a probe,        *)
(* MarkBackendStatus with any address).                                    *)
(***************************************************************************)
Flags(s) == [k \in 1..Len(s.backends) |-> s.backends[k].Alive]

\* The calls recorded are those made under the present flags.
Recorded(s) == IF Flags(s) = Flags(serverPool) THEN calls ELSE <<>>

\* An address no backend of any list has.
UnknownUrl == UrlParse([scheme |-> "http", host |-> 0])

Addresses == {serverPool.backends[k].URL : k \in 1..NumBackends} \cup {UnknownUrl}

SeqGetNextPeer ==
    /\ Len(calls) < MaxCalls
    /\ serverPool.currentIndex < MaxCursor
    /\ LET g == GetNextPeer(serverPool)
       IN  /\ serverPool' = g.pool
           /\ calls' = Append(calls, [before |-> serverPool.currentIndex,
                                      start  |-> NextIndex(serverPool).idx,
                                      peer   |-> g.peer,
                                      after  |-> g.pool.currentIndex])
    /\ lastOp' = [op |-> "peer"]
    /\ UNCHANGED <<req, hcIdx, hist, reachable, boot>>

SeqSetAlive ==
    /\ \E b \in Indices, up \in BOOLEAN :
          /\ serverPool' = [serverPool EXCEPT !.backends[b + 1] = SetAlive(@, up)]
          /\ lastOp' = [op |-> "probe"]
    /\ calls' = Recorded(serverPool')
    /\ UNCHANGED <<req, hcIdx, hist, reachable, boot>>

SeqMarkBackendStatus ==
    /\ \E u \in Addresses, alive \in BOOLEAN :
          /\ serverPool' = MarkBackendStatus(serverPool, u, alive)
          /\ lastOp' = [op |-> "mark", url |-> u, alive |-> alive,
                         changed |-> serverPool' # serverPool]
    /\ calls' = Recorded(serverPool')
    /\ UNCHANGED <<req, hcIdx, hist, reachable, boot>>

SeqInit == InitWith(MaxSeqBackends)

SeqNext ==
    \/ SeqGetNextPeer
    \/ SeqSetAlive
    \/ SeqMarkBackendStatus

SeqSpec == SeqInit /\ [][SeqNext]_vars

(***************************************************************************)
(* Requests arriving together while every backend is alive and answers:    *)
(* no probe fails, no ErrorHandler runs.  Each request makes one           *)
(* GetNextPeer call; calls keeps, in the order of the increments, the      *)
(* cursor value each call obtained and the backend it returned.            *)
(***************************************************************************)
CalmNextIndex(r) ==
    /\ lbStep(r)
    /\ calls' = Append(calls, [r |-> r, cursor |-> serverPool'.currentIndex,
                                peer |-> Nil])
    /\ UNCHANGED lastOp

CalmReturn(r) ==
    /\ GetNextPeerIterStep(r)
    /\ calls' = [k \in DOMAIN calls |->
                    IF calls[k].r = r THEN [calls[k] EXCEPT !.peer = req'[r].peer]
                    ELSE calls[k]]
    /\ UNCHANGED lastOp

CalmInit == InitWith(MaxSeqBackends)

CalmNext ==
    \/ \E r \in Requests : CalmNextIndex(r)
    \/ \E r \in Requests : CalmReturn(r)
    \/ \E r \in Requests : ProxyDelivers(r)

CalmSpec == CalmInit /\ [][CalmNext]_vars

(***************************************************************************)
(* NextIndex when the counter wraps.  The pool has served requests with    *)
(* every backend alive until currentIndex is within MaxCalls of the top of *)
(* its range (every value of the counter is reached that way), and the     *)
(* next calls of NextIndex are recorded in calls.                          *)
(***************************************************************************)
WrapInit ==
    /\ \E urls \in ServerLists(MaxSeqBackends), d \in 1..MaxCalls :
          serverPool = [ConfigurePool(EmptyPool, urls, 1)
                            EXCEPT !.currentIndex = CursorModulus - d]
    /\ req = [r \in Requests |-> NewRequest]
    /\ hcIdx = 0
    /\ hist = [r \in Requests |-> NewHistory]
    /\ calls = <<>>
    /\ lastOp = NoOp
    /\ reachable = 0..(Len(serverPool.backends) - 1)
    /\ boot = Serving

WrapNextIndex ==
    /\ Len(calls) < MaxCalls
    /\ LET n == NextIndex(serverPool)
       IN  /\ serverPool' = n.pool
           /\ calls' = Append(calls, [before |-> serverPool.currentIndex,
                                      start  |-> n.idx,
                                      after  |-> n.pool.currentIndex])
    /\ lastOp' = [op |-> "next"]
    /\ UNCHANGED <<req, hcIdx, hist, reachable, boot>>

WrapNext == WrapNextIndex

WrapSpec == WrapInit /\ [][WrapNext]_vars

(***************************************************************************)
(* The health check against a network that changes: a backend's address    *)
(* accepts connections or not, isBackendAlive's dial finds out which, and  *)
(* the pass over the backends is repeated forever (healthCheck's loop on   *)
(* the ticker; each dial ends within its timeout).  Between the probes     *)
(* requests select peers, and failure handlers mark backends dead.         *)
(***************************************************************************)
\* Mutant of isBackendAlive: the dial never succeeds.
isBackendAliveNever(b) == FALSE

\* net.DialTimeout("tcp", u.Host, timeout) returned no error.
isBackendAlive(b) == b \in reachable

\* The backends a probe has turned from dead to alive and that are alive since.
Healed == IF "healed" \in DOMAIN lastOp THEN lastOp.healed ELSE {}

StillAlive(S, s) == {b \in S : s.backends[b + 1].Alive}

ProbeHealthCheck ==
    /\ LET alive == isBackendAlive(hcIdx)
           was == serverPool.backends[hcIdx + 1].Alive
       IN  /\ serverPool' = [serverPool EXCEPT !.backends[hcIdx + 1] = SetAlive(@, alive)]
           /\ lastOp' = [op |-> "probe", b |-> hcIdx,
                         healed |-> StillAlive(IF ~was THEN Healed \cup {hcIdx} ELSE Healed,
                                               serverPool')]
    /\ hcIdx' = (hcIdx + 1) % NumBackends
    /\ UNCHANGED <<req, hist, calls, reachable, boot>>

\* A backend starts or stops accepting connections.
NetworkChange ==
    /\ \E b \in Indices :
          reachable' = IF b \in reachable THEN reachable \ {b} ELSE reachable \cup {b}
    /\ UNCHANGED <<serverPool, req, hcIdx, hist, calls, lastOp, boot>>

\* The ErrorHandler of a request forwarded to backend b.
ProbeMarkBackendStatus ==
    /\ \E b \in Indices :
          /\ serverPool' = MarkBackendStatus(serverPool, serverPool.backends[b + 1].URL, FALSE)
          /\ lastOp' = [op |-> "mark", b |-> b, healed |-> StillAlive(Healed, serverPool')]
    /\ UNCHANGED <<req, hcIdx, hist, calls, reachable, boot>>

ProbeGetNextPeer ==
    /\ serverPool.currentIndex < MaxCursor
    /\ LET g == GetNextPeer(serverPool)
       IN  /\ serverPool' = g.pool
           /\ lastOp' = [op |-> "peer", b |-> g.peer, healed |-> Healed]
    /\ UNCHANGED <<req, hcIdx, hist, calls, reachable, boot>>

ProbeNext ==
    \/ ProbeHealthCheck
    \/ NetworkChange
    \/ ProbeMarkBackendStatus
    \/ ProbeGetNextPeer

ProbeSpec == Init /\ [][ProbeNext]_vars /\ WF_vars(ProbeHealthCheck)

(***************************************************************************)
(* main from flag.Parse on.  The -backends string is a sequence of         *)
(* characters: letters, the separator and the colon (url.Parse rejects a   *)
(* token that begins with a colon: "missing protocol scheme").  log.Fatal  *)
(* exits the process.  Once main has started healthCheck and the server,   *)
(* requests call NextIndex and the health check probes.                    *)
(***************************************************************************)
Chars == {"a", "b", ",", ":"}

Strings(max) == UNION {[1..n -> Chars] : n \in 0..max}

\* Mutant of Split: empty tokens are dropped.
RECURSIVE SplitNonEmpty(_, _)
SplitNonEmpty(str, tok) ==
    IF str = <<>> THEN (IF tok = <<>> THEN <<>> ELSE <<tok>>)
    ELSE IF Head(str) = ","
         THEN (IF tok = <<>> THEN <<>> ELSE <<tok>>) \o SplitNonEmpty(Tail(str), <<>>)
         ELSE SplitNonEmpty(Tail(str), Append(tok, Head(str)))

\* strings.Split(str, ","), tok being the token read so far.
RECURSIVE Split(_, _)
Split(str, tok) ==
    IF str = <<>> THEN <<tok>>
    ELSE IF Head(str) = ","
         THEN <<tok>> \o Split(Tail(str), <<>>)
         ELSE Split(Tail(str), Append(tok, Head(str)))

\* url.Parse(tok) returns an error.
UrlParseFails(tok) == tok # <<>> /\ Head(tok) = ":"

StartupInit ==
    /\ serverPool = EmptyPool
    /\ req = [r \in Requests |-> NewRequest]
    /\ hcIdx = 0
    /\ hist = [r \in Requests |-> NewHistory]
    /\ calls = <<>>
    /\ lastOp = NoOp
    /\ reachable = {}
    /\ \E str \in Strings(MaxListLen) :
          boot = [pc |-> "main", serverList |-> str, tokens |-> <<>>, k |-> 0]

\* if len(serverList) == 0 { log.Fatal(...) }; urls := strings.Split(serverList, ",")
MainSplit ==
    /\ boot.pc = "main"
    /\ boot' = IF Len(boot.serverList) = 0
               THEN [boot EXCEPT !.pc = "fatal"]
               ELSE [boot EXCEPT !.pc = "range", !.tokens = Split(boot.serverList, <<>>),
                                 !.k = 1]
    /\ UNCHANGED <<serverPool, req, hcIdx, hist, calls, lastOp, reachable>>

\* One iteration of for _, tok := range urls; after the last one the server is
\* created, healthCheck started and ListenAndServe called.
MainRange ==
    /\ boot.pc = "range"
    /\ IF boot.k > Len(boot.tokens)
       THEN /\ boot' = [boot EXCEPT !.pc = "serving"]
            /\ UNCHANGED serverPool
       ELSE LET tok == boot.tokens[boot.k]
            IN  IF UrlParseFails(tok)
                THEN /\ boot' = [boot EXCEPT !.pc = "fatal"]
                     /\ UNCHANGED serverPool
                ELSE /\ serverPool' =
                            AddBackend(serverPool,
                                       [URL |-> UrlParse([scheme |-> "http", host |-> tok]),
                                        Alive |-> TRUE])
                     /\ boot' = [boot EXCEPT !.k = @ + 1]
    /\ UNCHANGED <<req, hcIdx, hist, calls, lastOp, reachable>>

\* A request's GetNextPeer calls NextIndex.
StartupNextIndex ==
    /\ boot.pc = "serving"
    /\ serverPool.currentIndex < MaxCursor
    /\ LET n == NextIndex(serverPool)
       IN  /\ serverPool' = n.pool
           /\ lastOp' = [op |-> "next", idx |-> n.idx]
    /\ UNCHANGED <<req, hcIdx, hist, calls, reachable, boot>>

StartupHealthCheck ==
    /\ boot.pc = "serving"
    /\ \E up \in BOOLEAN :
          serverPool' = [serverPool EXCEPT !.backends[hcIdx + 1] = SetAlive(@, up)]
    /\ hcIdx' = (hcIdx + 1) % NumBackends
    /\ lastOp' = [op |-> "probe"]
    /\ UNCHANGED <<req, hist, calls, reachable, boot>>

StartupNext ==
    \/ MainSplit
    \/ MainRange
    \/ StartupNextIndex
    \/ StartupHealthCheck

StartupSpec == StartupInit /\ [][StartupNext]_vars

(***************************************************************************)
(* Properties of the pool used by one caller at a time (SeqSpec).          *)
(***************************************************************************)
AliveSet == {b \in Indices : serverPool.backends[b + 1].Alive}

Times(b) == Cardinality({k \in 1..Len(calls) : calls[k].peer = b})

Min(S) == CHOOSE x \in S : \A y \in S : x <= y

\* The first alive backend met from position (c + 1) mod N on, over N consecutive
\* positions with wrap-around; Nil when there is none.
FirstAliveAfter(c) ==
    LET N == NumBackends
        hits == {j \in 0..(N - 1) : ((c + 1 + j) % N) \in AliveSet}
    IN  IF hits = {} THEN Nil ELSE (c + 1 + Min(hits)) % N

\* C1: with every backend alive, M GetNextPeer calls run one after another return
\* the backends in array order with wrap-around, starting at (c + 1) mod N for the
\* cursor c before the first call, so each backend is returned floor(M/N) or
\* ceil(M/N) times.
C1_RoundRobin ==
    AliveSet = Indices =>
        LET M == Len(calls)
            N == NumBackends
        IN  /\ \A k \in 1..M : calls[k].peer = (calls[1].before + k) % N
            /\ \A b \in Indices : Times(b) \in {M \div N, (M + N - 1) \div N}

C1_Witness ==
    /\ AliveSet = Indices
    /\ NumBackends = 3
    /\ Len(calls) = 5
    /\ calls[1].before = 1
    /\ Times(2) = 2 /\ Times(1) = 1

\* C2: a GetNextPeer call under flags that do not change returns the first alive
\* backend met from (c + 1) mod N on, and nil exactly when no backend is alive.
C2_FirstAliveFromCursor ==
    \A k \in 1..Len(calls) :
        /\ calls[k].peer = FirstAliveAfter(calls[k].before)
        /\ calls[k].peer = Nil <=> AliveSet = {}
        /\ calls[k].peer # Nil => calls[k].peer \in AliveSet

\* The pool [A dead, B alive, C alive] with cursor 0: the first call returns B.
C2_Witness ==
    /\ NumBackends = 3
    /\ AliveSet = {1, 2}
    /\ Len(calls) >= 1
    /\ calls[1].before = 0
    /\ calls[1].peer = 1

\* C3: with exactly one backend alive, every GetNextPeer call returns it, whatever
\* the cursor, also after earlier calls have fast-forwarded the cursor.
C3_OnlyAliveBackend ==
    \A b \in Indices :
        AliveSet = {b} => \A k \in 1..Len(calls) : calls[k].peer = b

C3_Witness ==
    /\ NumBackends = 3
    /\ AliveSet = {0}
    /\ Len(calls) >= 3
    /\ calls[1].after # calls[1].before + 1
    /\ calls[3].peer = 0

\* The backends whose record differs between two pools.
Changed(s, t) == {k \in 1..Len(s.backends) : s.backends[k] # t.backends[k]}

Matching(s, u) == {k \in 1..Len(s.backends) : UrlString(s.backends[k].URL) = UrlString(u)}

\* C10: MarkBackendStatus(address, v) applied twice leaves what one application
\* leaves; an address no backend has changes nothing; and it changes at most the
\* alive flag of one backend with that address, not the other backends, the
\* sequence or the cursor.
C10_MarkIdempotentFramed ==
    \A u \in Addresses, v \in BOOLEAN :
        LET once == MarkBackendStatus(serverPool, u, v)
            twice == MarkBackendStatus(once, u, v)
        IN  /\ twice = once
            /\ Matching(serverPool, u) = {} => once = serverPool
            /\ once.currentIndex = serverPool.currentIndex
            /\ Len(once.backends) = Len(serverPool.backends)
            /\ \A k \in 1..NumBackends : once.backends[k].URL = serverPool.backends[k].URL
            /\ Changed(serverPool, once) \subseteq Matching(serverPool, u)
            /\ Cardinality(Changed(serverPool, once)) <= 1
            /\ \A k \in Changed(serverPool, once) : once.backends[k].Alive = v

\* MarkBackendStatus has just run a second time with an address two backends share:
\* the first of them was dead already and nothing changed, the second is still alive.
C10_Witness ==
    /\ lastOp.op = "mark"
    /\ lastOp.alive = FALSE
    /\ ~lastOp.changed
    /\ \E j, k \in Matching(serverPool, lastOp.url) :
          /\ j < k
          /\ ~serverPool.backends[j].Alive
          /\ serverPool.backends[k].Alive

(***************************************************************************)
(* Properties of requests served concurrently with the health check (Spec) *)
(***************************************************************************)
Attempts(r) == GetAttemptsFromContext(req[r].ctx)

\* The step is one of request r.
Steps(r) == req'[r] # req[r]

\* The step is the one in which r's GetNextPeer call chooses its peer.
Selects(r) == req[r].pc = "scan" /\ req'[r].pc \in {"store", "serve"}

\* The step is a pass of r's ErrorHandler through its reroute branch.
Reroutes(r) == req[r].pc = "serve" /\ req'[r].pc = "lb"

\* C4: lb entered with attempts > 3 answers 503 and stops: no GetNextPeer call, the
\* cursor and the alive flags unchanged, nothing forwarded.
C4_CeilingStops ==
    [][\A r \in Requests :
          (req[r].pc = "lb" /\ Attempts(r) > 3 /\ Steps(r)) =>
              /\ req'[r].pc = "done"
              /\ req'[r].status = 503
              /\ serverPool' = serverPool
              /\ hist'[r].forwards = hist[r].forwards]_vars

C4_Witness ==
    \E r \in Requests :
        /\ req[r].pc = "done"
        /\ req[r].status = 503
        /\ Attempts(r) = 4
        /\ hist[r].cause = "attempts"
        /\ hist[r].forwards = 4

\* An upper bound on the steps a request still takes: one lb entry, at most N reads,
\* one store and one proxy call per attempt left, and the last lb entry.
Rank(rq, n) ==
    LET a == GetAttemptsFromContext(rq.ctx)
        round == n + 3
        later == IF a >= 4 THEN 0 ELSE (3 - a) * round + 1
    IN  CASE rq.pc = "done"  -> 0
          [] rq.pc = "lb"    -> IF a >= 4 THEN 1 ELSE later + round
          [] rq.pc = "scan"  -> later + 2 + (n - (rq.i - rq.next))
          [] rq.pc = "store" -> later + 2
          [] rq.pc = "serve" -> later + 1

RequestStep(r) ==
    \/ lb(r)
    \/ GetNextPeerIter(r)
    \/ GetNextPeerStore(r)
    \/ ProxyDelivers(r)
    \/ ErrorHandler(r)

C7_RetriesBeforeMarkingDead ==
    [][\A r \in Requests :
          hist'[r].marks > hist[r].marks => GetRetryFromContext(req[r].ctx) >= 3]_vars

DistinctAddresses ==
    \A j, k \in 1..NumBackends :
        j # k => UrlString(serverPool.backends[j].URL) # UrlString(serverPool.backends[k].URL)

\* The reroute branch for peer P sets P's flag to false and changes nothing else of
\* the pool: one MarkBackendStatus(P, false).
MarksOnce(r) ==
    Reroutes(r) =>
        /\ hist'[r].marks = hist[r].marks + 1
        /\ DistinctAddresses =>
              serverPool' = [serverPool EXCEPT !.backends[req[r].peer + 1].Alive = FALSE]

\* C8 as claimed: each pass through the reroute branch for P calls
\* MarkBackendStatus(P, false) once and, if another backend was alive then, the
\* request is next forwarded to a backend other than P, in every interleaving.
C8_ReroutedToAnotherPeer ==
    [][\A r \in Requests :
          /\ MarksOnce(r)
          /\ (Selects(r) /\ hist[r].failedPeer # Nil /\ hist[r].otherAlive
                /\ DistinctAddresses)
                => req'[r].peer # hist[r].failedPeer]_vars

\* C8 as amended: ... unless a probe has set P's flag back to true since the mark.
C8_ReroutedUnlessRevived ==
    [][\A r \in Requests :
          /\ MarksOnce(r)
          /\ (Selects(r) /\ hist[r].failedPeer # Nil /\ hist[r].otherAlive
                /\ ~hist[r].revived /\ DistinctAddresses)
                => req'[r].peer # hist[r].failedPeer]_vars

\* After the reroute for P (another backend alive then, no probe of P since), the
\* request's GetNextPeer call is about to read a backend other than P as alive.
C8_Witness ==
    \E r \in Requests :
        /\ req[r].pc = "scan"
        /\ hist[r].marks = 1
        /\ hist[r].failedPeer # Nil
        /\ hist[r].otherAlive
        /\ ~hist[r].revived
        /\ DistinctAddresses
        /\ (req[r].i % NumBackends) # hist[r].failedPeer
        /\ serverPool.backends[(req[r].i % NumBackends) + 1].Alive
        /\ ~serverPool.backends[hist[r].failedPeer + 1].Alive

\* C9: a GetNextPeer call returns a backend only in a step in which it reads that
\* backend's flag as true; it never returns a backend whose flag was false when the
\* call began and has not been set to true since; and only the health check sets a
\* flag from false to true.
C9_DeadNotReturned ==
    [][/\ \A r \in Requests :
            Selects(r) =>
                /\ serverPool.backends[req'[r].peer + 1].Alive
                /\ req'[r].peer \notin hist[r].deadSince
       /\ \A b \in Indices :
            (~serverPool.backends[b + 1].Alive /\ serverPool'.backends[b + 1].Alive)
                => (req' = req /\ b = hcIdx)]_vars

\* A call has passed a backend that is dead since before the call began and has
\* chosen a later one.
C9_Witness ==
    \E r \in Requests :
        /\ req[r].pc = "store"
        /\ serverPool.backends[req[r].peer + 1].Alive
        /\ DeadNow # {}
        /\ Attempts(r) = 0

(***************************************************************************)
(* Properties of the cursor under concurrent GetNextPeer calls (PeerSpec). *)
(***************************************************************************)
Increments(r) == req[r].pc = "lb" /\ req'[r].pc = "scan"

Stores(r) == req[r].pc = "store" /\ req'[r].pc = "serve"

\* C11 as stated: the cursor is monotonically increasing: no step of any
\* interleaving of GetNextPeer calls, whatever the alive flags are, lowers it.
C11_CursorNeverDecreases ==
    [][serverPool'.currentIndex >= serverPool.currentIndex]_vars

\* C11, amended: the cursor changes only in NextIndex's atomic increment, which
\* adds one, and in GetNextPeer's fast-forward, which stores the index (in
\* 0..N-1) of the backend the call returns, whatever the cursor has grown to.
C11_CursorIncrementOrStore ==
    [][serverPool'.currentIndex # serverPool.currentIndex =>
          \E r \in Requests :
              /\ Steps(r)
              /\ \/ /\ Increments(r)
                    /\ serverPool'.currentIndex = serverPool.currentIndex + 1
                 \/ /\ Stores(r)
                    /\ serverPool'.currentIndex = req'[r].peer
                    /\ req'[r].peer \in Indices]_vars

\* A request has incremented and been given backend 0 of two, and the cursor, at
\* least 1 after its increment, is 0: the fast-forward has lowered it.
C11_Witness ==
    \E r \in Requests :
        /\ NumBackends = 2
        /\ req[r].pc = "serve"
        /\ req[r].peer = 0
        /\ hist[r].forwards = 1
        /\ serverPool.currentIndex = 0

(***************************************************************************)
(* Properties of the health check (ProbeSpec).                             *)
(***************************************************************************)
AliveAt(b) == b \in Indices /\ serverPool.backends[b + 1].Alive

DeadAt(b) == b \in Indices /\ ~serverPool.backends[b + 1].Alive

Addrs(s) == [k \in 1..Len(s.backends) |-> s.backends[k].URL]

\* C12: with the health check scheduled fairly, a backend whose flag is false and
\* whose address accepts connections from then on is eventually marked alive, by a
\* probe and with the registry as it was; a backend whose flag is true and whose
\* address refuses connections from then on is eventually marked dead.
C12_SelfHealing ==
    /\ \A b \in 0..(MaxBackends - 1) :
          /\ []((DeadAt(b) /\ [](b \in reachable)) => <>AliveAt(b))
          /\ []((AliveAt(b) /\ [](b \notin reachable)) => <>DeadAt(b))
    /\ [][/\ Addrs(serverPool') = Addrs(serverPool)
          /\ \A b \in Indices :
                DeadAt(b) /\ serverPool'.backends[b + 1].Alive
                    => lastOp'.op = "probe" /\ lastOp'.b = b /\ b \in reachable]_vars

\* GetNextPeer has returned a backend that a probe had turned from dead to alive.
C12_Witness ==
    /\ lastOp.op = "peer"
    /\ lastOp.b \in Healed
    /\ lastOp.b \in reachable

(***************************************************************************)
(* Properties of main (StartupSpec).                                       *)
(***************************************************************************)
Separators(str) == Cardinality({k \in 1..Len(str) : str[k] = ","})

\* C13: whatever the -backends string is, main either stops with a fatal error
\* before serving, as it does for the empty string, or has registered at least one
\* backend (one per token of the string) when the server and the health check
\* start; NextIndex and the probes run only then, with len(backends) >= 1.
C13_NeverServesEmptyPool ==
    /\ boot.pc = "serving" =>
          /\ NumBackends >= 1
          /\ NumBackends = Separators(boot.serverList) + 1
          /\ boot.serverList # <<>>
    /\ boot.serverList = <<>> => boot.pc \in {"main", "fatal"}
    /\ boot.pc # "serving" =>
          /\ lastOp = NoOp
          /\ hcIdx = 0
          /\ serverPool.currentIndex = 0
    /\ lastOp # NoOp /\ lastOp.op = "next" => lastOp.idx \in 0..(NumBackends - 1)

\* The string ",b" has been configured as two backends, the first with the empty
\* address, and the health check and NextIndex have run.
C13_Witness ==
    /\ boot.pc = "serving"
    /\ boot.serverList = <<",", "b">>
    /\ NumBackends = 2
    /\ lastOp # NoOp
    /\ lastOp.op = "next"
    /\ hcIdx = 1

(***************************************************************************)
(* Properties of the starting index and of the fast-forward (SeqSpec).     *)
(***************************************************************************)
FastForwarded(c) == c.peer # Nil /\ c.peer # c.start

\* C14 as stated: whatever the alive flags are, the index NextIndex returns to a
\* GetNextPeer call is the index it returned to the call before, plus one, modulo
\* the number of backends.
C14_StartsCycle ==
    \A k \in 2..Len(calls) :
        calls[k].start = (calls[k - 1].start + 1) % NumBackends

\* C14, amended: the index NextIndex returns is the one it returned to the call
\* before, plus one, modulo the number of backends, unless that call found its
\* starting backend dead and returned a later one: then it is the index of the
\* backend that call returned, plus one, modulo the number of backends.
C14_StartsFollowCursor ==
    \A k \in 2..Len(calls) :
        calls[k].start =
            IF FastForwarded(calls[k - 1])
            THEN (calls[k - 1].peer + 1) % NumBackends
            ELSE (calls[k - 1].start + 1) % NumBackends

\* A call started at a dead backend and returned the one after it; the next call
\* started not at the position after the first call's start.
C14_Witness ==
    /\ Len(calls) >= 2
    /\ FastForwarded(calls[1])
    /\ calls[2].start = (calls[1].peer + 1) % NumBackends
    /\ calls[2].start # (calls[1].start + 1) % NumBackends

\* C15: a GetNextPeer call run alone that returns a backend other than the one at
\* its starting index leaves the cursor equal to the index of the backend returned,
\* so that the next call starts at the position after that backend; a call that
\* returns its starting backend, or nil, leaves the cursor at the old value plus one.
C15_FastForward ==
    \A k \in 1..Len(calls) :
        IF FastForwarded(calls[k])
        THEN /\ calls[k].after = calls[k].peer
             /\ k < Len(calls) => calls[k + 1].start = (calls[k].peer + 1) % NumBackends
        ELSE calls[k].after = calls[k].before + 1

\* With three backends and the cursor at 4, a call has started at dead backend 2,
\* returned backend 0 and left the cursor at 0; the next call has returned its
\* starting backend 1 and left the cursor at 1.
C15_Witness ==
    /\ NumBackends = 3
    /\ Len(calls) >= 2
    /\ calls[1].before = 4
    /\ calls[1].start = 2
    /\ calls[1].peer = 0
    /\ calls[1].after = 0
    /\ calls[2].start = 1
    /\ calls[2].peer = 1
    /\ calls[2].after = 1

(***************************************************************************)
(* Properties of the failure handler and of the writes (Spec).             *)
(***************************************************************************)
Fails(r) == req[r].pc = "serve" /\ Steps(r) /\ req'[r].pc # "done"

C17_FlagWriters ==
    [][serverPool'.backends # serverPool.backends =>
          /\ Addrs(serverPool') = Addrs(serverPool)
          /\ \A b \in Indices :
                serverPool'.backends[b + 1].Alive # serverPool.backends[b + 1].Alive =>
                    \/ /\ req' = req
                       /\ hcIdx = b
                       /\ hcIdx' = (hcIdx + 1) % NumBackends
                    \/ \E r \in Requests :
                          /\ Fails(r)
                          /\ Reroutes(r)
                          /\ serverPool.backends[b + 1].Alive
                          /\ UrlString(serverPool.backends[b + 1].URL)
                                = UrlString(serverPool.backends[req[r].peer + 1].URL)
          /\ \A r \in Requests :
                Steps(r) => req[r].pc \notin {"lb", "scan", "store"}]_vars

\* Both writers have acted: a failure handler has marked backend 0 dead for its
\* request, and backend 1 is dead although no request has been forwarded to it.
C17_Witness ==
    /\ NumBackends = 2
    /\ DistinctAddresses
    /\ DeadNow = {0, 1}
    /\ \E r \in Requests :
          /\ req[r].pc = "lb"
          /\ hist[r].marks = 1
          /\ hist[r].failedPeer = 0
          /\ \A q \in Requests \ {r} : req[q].pc = "lb" /\ hist[q].forwards = 0

(***************************************************************************)
(* Properties of a GetNextPeer call among flag writes (PeerSpec).          *)
(***************************************************************************)
\* C18 as stated: GetNextPeer returns nil, and lb answers 503 for lack of a peer,
\* only if at some instant during the call every alive flag was false.
C18_NilOnlyWhenAllDead ==
    \A r \in Requests : hist[r].cause = "nopeer" => AllDeadSeen[r]

\* C18, amended: GetNextPeer returns nil only if the call has read the flag of
\* every backend as false, each at the instant of its own read.
C18_NilOnlyWhenEachReadDead ==
    \A r \in Requests : hist[r].cause = "nopeer" => hist[r].readDead = Indices

\* A call on two backends has returned nil although at every instant of the call
\* one of the two flags was true.
C18_Witness ==
    \E r \in Requests :
        /\ NumBackends = 2
        /\ hist[r].cause = "nopeer"
        /\ req[r].status = StatusServiceUnavailable
        /\ hist[r].readDead = {0, 1}
        /\ ~AllDeadSeen[r]

(***************************************************************************)
(* Properties of concurrent calls on a pool that is all alive (CalmSpec).  *)
(***************************************************************************)
Ceil(a, b) == (a + b - 1) \div b

Returned(b) == {k \in DOMAIN calls : calls[k].peer = b}

\* C19: with every backend alive and no failure, the K GetNextPeer calls made so
\* far, however their steps interleave, have obtained K distinct consecutive cursor
\* values and each returns the backend at its value modulo N; so no backend has
\* been returned more than ceil(K/N) times and, with two backends or more, two
\* calls whose increments follow one another have not returned the same backend.
C19_ConcurrentCallsSpread ==
    /\ \A k \in DOMAIN calls :
          /\ calls[k].cursor = calls[1].cursor + (k - 1)
          /\ calls[k].peer \in {Nil, calls[k].cursor % NumBackends}
          /\ req[calls[k].r].pc # "scan" => calls[k].peer # Nil
    /\ \A b \in Indices : Cardinality(Returned(b)) <= Ceil(Len(calls), NumBackends)
    /\ NumBackends >= 2 =>
          \A k \in 1..(Len(calls) - 1) :
              calls[k].peer = Nil \/ calls[k].peer # calls[k + 1].peer

\* Two calls on two backends have interleaved: the second to increment has returned
\* first and its request has been answered, the first is being served; backend 1
\* and backend 0 have been returned once each.
C19_Witness ==
    /\ NumBackends = 2
    /\ Len(calls) = NumRequests
    /\ calls[1].peer = 1
    /\ calls[2].peer = 0
    /\ req[calls[1].r].pc = "serve"
    /\ req[calls[2].r].pc = "done"
    /\ req[calls[2].r].status = StatusOK

(***************************************************************************)
(* Properties of NextIndex at the wrap of the counter (WrapSpec).          *)
(***************************************************************************)
\* C20: with the counter wrapping at its width, NextIndex always returns an index
\* in 0..N-1, and the round-robin order goes on across the wrap: the index returned
\* by every call, the call that wraps the counter included, is the index returned
\* by the call before, plus one, modulo N, for every number N >= 1 of backends.
C20_OrderAcrossWrap ==
    \A k \in DOMAIN calls :
        /\ calls[k].start \in 0..(NumBackends - 1)
        /\ k > 1 => calls[k].start = (calls[k - 1].start + 1) % NumBackends

====
